---- MODULE Spec2Model ----
(***************************************************************************)
(* Model of bulkmt (src/main.cpp): the Worker (queue, lock, condition      *)
(* variable, background thread), and the Parser (line state machine and    *)
(* publication to subscribers).                                            *)
(***************************************************************************)
EXTENDS Integers, Sequences, FiniteSets, TLC

\* ---------------------------------------------------------------- bounds
MaxPush == 3      \* push_back calls made on the Worker
MaxStops == 2     \* stop() calls made on the Worker
MaxLines == 5     \* input lines read by Parser::exec
MaxBulk == 2      \* largest bulk size given to the Parser
MaxSubs == 2      \* subscribers registered with the Parser
MaxWorkers == 2   \* largest pool a File sink is built with
MaxBatches == 3   \* push_back calls made on a sink

\* ---------------------------------------------------------------- state
VARIABLES
    \* Worker members
    m_running,      \* bool m_running
    m_queue,        \* std::list<Bulk> m_queue (batches named by number)
    m_mutex,        \* owner of m_mutex: "free", "worker", "pusher", "stopper"
    m_joinable,     \* m_thread.joinable()
    \* the background thread (lambda of Worker::start)
    pcW,            \* position of the background thread
    local_queue,    \* local_queue of the loop body
    idx,            \* position of the range-for over the queue
    inHandler,      \* batch m_workFunction is running on, 0 when none
    handled,        \* batches m_workFunction has returned from, in order
    \* a thread calling push_back
    pcP, pushArg, nextBatch, completed,
    \* a thread calling stop
    pcS, stopCalls, stopReturns, preStop, joinFault,
    \* Parser members and the locals of Parser::exec
    pcExec, pstate, commands, depthCounter,
    m_bulkSize, m_lineCount, m_commandCount, m_blockCount,
    m_subscribers,  \* number of registered callbacks
    received,       \* received[i]: batches subscriber i was called with
    published,      \* batches publish() delivered, in order
    calls,          \* subscriber invocations <<i, batch>>, in order
    regAt,          \* regAt[i]: batches published before i subscribed
    input,          \* lines std::getline has returned so far
    \* a sink (ScreenWritter or FileWriter) and the thread driving it
    sinkKind,       \* "screen" or "file"
    nWorkers,       \* workers the sink owns (m_workers.size(); 1 for screen)
    sizes,          \* sizes of the batches the producer pushes in this run
    stamps,         \* seconds the clock shows during this run
    m_roundRobin,   \* FileWriter::m_roundRobin
    b_blockCount,   \* IBulker::m_blockCount, keyed by worker
    b_commandCount, \* IBulker::m_commandCount, keyed by worker
    pcM,            \* position of the dispatching thread
    curBatch,       \* argument of the push_back in progress, <<number, size>>
    target,         \* worker the push_back or stop in progress works on
    nPushed,        \* push_back calls on the sink that have returned
    handed,         \* handed[w]: batches enqueued on worker w, in order
    \* the sink's Workers, by index
    k_running, k_queue, k_mutex, k_pc, k_local, k_idx, k_cur, k_handled,
    k_hpc,          \* position inside the handler (write)
    k_time,         \* std::time result held by the handler
    \* statics of FileWriter::write and the files it opened
    conflictResolverCounter, conflictMutex, files

wvars == <<m_running, m_queue, m_mutex, m_joinable, pcW, local_queue, idx,
           inHandler, handled, pcP, pushArg, nextBatch, completed,
           pcS, stopCalls, stopReturns, preStop, joinFault>>
pvars == <<pcExec, pstate, commands, depthCounter, m_bulkSize, m_lineCount,
           m_commandCount, m_blockCount, m_subscribers, received, published,
           calls, regAt, input>>
svars == <<sinkKind, nWorkers, sizes, stamps, m_roundRobin, b_blockCount, b_commandCount,
           pcM, curBatch, target, nPushed, handed,
           k_running, k_queue, k_mutex, k_pc, k_local, k_idx, k_cur,
           k_handled, k_hpc, k_time,
           conflictResolverCounter, conflictMutex, files>>
vars == <<wvars, pvars, svars>>

\* ---------------------------------------------------------------- Worker
\* Worker::Worker: m_running(false), then start(): m_running = true and the
\* background thread is spawned at the top of its loop.
WorkerInit ==
    /\ m_running = TRUE
    /\ m_queue = <<>>
    /\ m_mutex = "free"
    /\ m_joinable = TRUE
    /\ pcW = "lock"
    /\ local_queue = <<>>
    /\ idx = 1
    /\ inHandler = 0
    /\ handled = <<>>
    /\ pcP = "idle" /\ pushArg = 0 /\ nextBatch = 1 /\ completed = {}
    /\ pcS = "idle" /\ stopCalls = 0 /\ stopReturns = 0 /\ preStop = {}
    /\ joinFault = FALSE

\* m_condition.notify_all(): a thread blocked in wait becomes runnable and
\* has to take the mutex again.
NotifyAll_None == pcW
NotifyAll == IF pcW = "waiting" THEN "relock" ELSE pcW

\* the predicate of m_condition.wait
WaitPred_QueueOnly == m_queue # <<>>
WaitPred == (m_queue # <<>>) \/ ~m_running

\* --- push_back
P_Call ==
    /\ pcP = "idle" /\ nextBatch <= MaxPush
    /\ pushArg' = nextBatch /\ nextBatch' = nextBatch + 1
    /\ pcP' = "lock"
    /\ UNCHANGED <<m_running, m_queue, m_mutex, m_joinable, pcW, local_queue,
                   idx, inHandler, handled, completed,
                   pcS, stopCalls, stopReturns, preStop, joinFault>>
    /\ UNCHANGED <<pvars, svars>>

P_Lock ==
    /\ pcP = "lock" /\ m_mutex = "free"
    /\ m_mutex' = "pusher" /\ pcP' = "locked"
    /\ UNCHANGED <<m_running, m_queue, m_joinable, pcW, local_queue,
                   idx, inHandler, handled, pushArg, nextBatch, completed,
                   pcS, stopCalls, stopReturns, preStop, joinFault>>
    /\ UNCHANGED <<pvars, svars>>

P_Enqueue_Front ==
    /\ pcP = "locked"
    /\ m_queue' = <<pushArg>> \o m_queue
    /\ m_mutex' = "free" /\ pcP' = "notify"
    /\ UNCHANGED <<m_running, m_joinable, pcW, local_queue,
                   idx, inHandler, handled, pushArg, nextBatch, completed,
                   pcS, stopCalls, stopReturns, preStop, joinFault>>
    /\ UNCHANGED <<pvars, svars>>

P_Enqueue ==
    /\ pcP = "locked"
    /\ m_queue' = Append(m_queue, pushArg)
    /\ m_mutex' = "free" /\ pcP' = "notify"
    /\ UNCHANGED <<m_running, m_joinable, pcW, local_queue,
                   idx, inHandler, handled, pushArg, nextBatch, completed,
                   pcS, stopCalls, stopReturns, preStop, joinFault>>
    /\ UNCHANGED <<pvars, svars>>

P_Notify ==
    /\ pcP = "notify"
    /\ pcW' = NotifyAll
    /\ completed' = completed \cup {pushArg}
    /\ pcP' = "idle"
    /\ UNCHANGED <<m_running, m_queue, m_mutex, m_joinable, local_queue,
                   idx, inHandler, handled, pushArg, nextBatch,
                   pcS, stopCalls, stopReturns, preStop, joinFault>>
    /\ UNCHANGED <<pvars, svars>>

\* --- the background thread
W_Lock ==
    /\ pcW \in {"lock", "relock"} /\ m_mutex = "free"
    /\ m_mutex' = "worker" /\ pcW' = "check"
    /\ UNCHANGED <<m_running, m_queue, m_joinable, local_queue,
                   idx, inHandler, handled, pcP, pushArg, nextBatch, completed,
                   pcS, stopCalls, stopReturns, preStop, joinFault>>
    /\ UNCHANGED <<pvars, svars>>

W_Check_NoDrain ==
    /\ pcW = "check"
    /\ IF ~WaitPred
         THEN /\ m_mutex' = "free" /\ pcW' = "waiting"
              /\ UNCHANGED <<m_queue, local_queue, idx>>
         ELSE IF ~m_running
           THEN /\ pcW' = "drain" /\ idx' = Len(m_queue) + 1
                /\ UNCHANGED <<m_queue, local_queue, m_mutex>>
           ELSE /\ local_queue' = m_queue /\ m_queue' = <<>>
                /\ m_mutex' = "free"
                /\ pcW' = "work" /\ idx' = 1
    /\ UNCHANGED <<m_running, m_joinable, inHandler, handled,
                   pcP, pushArg, nextBatch, completed,
                   pcS, stopCalls, stopReturns, preStop, joinFault>>
    /\ UNCHANGED <<pvars, svars>>

\* wait(lk, pred) with the mutex held, and what follows its return
W_Check ==
    /\ pcW = "check"
    /\ IF ~WaitPred
         THEN /\ m_mutex' = "free" /\ pcW' = "waiting"
              /\ UNCHANGED <<m_queue, local_queue, idx>>
         ELSE IF ~m_running
           THEN /\ pcW' = "drain" /\ idx' = 1
                /\ UNCHANGED <<m_queue, local_queue, m_mutex>>
           ELSE /\ local_queue' = m_queue /\ m_queue' = <<>>
                /\ m_mutex' = "free"
                /\ pcW' = "work" /\ idx' = 1
    /\ UNCHANGED <<m_running, m_joinable, inHandler, handled,
                   pcP, pushArg, nextBatch, completed,
                   pcS, stopCalls, stopReturns, preStop, joinFault>>
    /\ UNCHANGED <<pvars, svars>>

\* a wait may return without a notification
W_Spurious ==
    /\ pcW = "waiting"
    /\ pcW' = "relock"
    /\ UNCHANGED <<m_running, m_queue, m_mutex, m_joinable, local_queue,
                   idx, inHandler, handled, pcP, pushArg, nextBatch, completed,
                   pcS, stopCalls, stopReturns, preStop, joinFault>>
    /\ UNCHANGED <<pvars, svars>>

\* the list a range-for is walking
Iterated == IF pcW \in {"drain", "drain_h"} THEN m_queue ELSE local_queue

W_HandlerCall ==
    /\ pcW \in {"drain", "work"} /\ idx <= Len(Iterated)
    /\ inHandler' = Iterated[idx]
    /\ pcW' = IF pcW = "drain" THEN "drain_h" ELSE "work_h"
    /\ UNCHANGED <<m_running, m_queue, m_mutex, m_joinable, local_queue,
                   idx, handled, pcP, pushArg, nextBatch, completed,
                   pcS, stopCalls, stopReturns, preStop, joinFault>>
    /\ UNCHANGED <<pvars, svars>>

W_HandlerReturn ==
    /\ pcW \in {"drain_h", "work_h"}
    /\ handled' = Append(handled, inHandler)
    /\ inHandler' = 0 /\ idx' = idx + 1
    /\ pcW' = IF pcW = "drain_h" THEN "drain" ELSE "work"
    /\ UNCHANGED <<m_running, m_queue, m_mutex, m_joinable, local_queue,
                   pcP, pushArg, nextBatch, completed,
                   pcS, stopCalls, stopReturns, preStop, joinFault>>
    /\ UNCHANGED <<pvars, svars>>

W_WorkDone ==
    /\ pcW = "work" /\ idx > Len(local_queue)
    /\ local_queue' = <<>> /\ idx' = 1 /\ pcW' = "lock"
    /\ UNCHANGED <<m_running, m_queue, m_mutex, m_joinable,
                   inHandler, handled, pcP, pushArg, nextBatch, completed,
                   pcS, stopCalls, stopReturns, preStop, joinFault>>
    /\ UNCHANGED <<pvars, svars>>

W_DrainDone ==
    /\ pcW = "drain" /\ idx > Len(m_queue)
    /\ m_queue' = <<>> /\ idx' = 1
    /\ m_mutex' = "free" /\ pcW' = "exited"
    /\ UNCHANGED <<m_running, m_joinable, local_queue,
                   inHandler, handled, pcP, pushArg, nextBatch, completed,
                   pcS, stopCalls, stopReturns, preStop, joinFault>>
    /\ UNCHANGED <<pvars, svars>>

\* --- stop
S_Call ==
    /\ pcS = "idle" /\ stopCalls < MaxStops
    /\ stopCalls' = stopCalls + 1
    /\ preStop' = IF stopCalls = 0 THEN completed ELSE preStop
    /\ pcS' = "lock"
    /\ UNCHANGED <<m_running, m_queue, m_mutex, m_joinable, pcW, local_queue,
                   idx, inHandler, handled, pcP, pushArg, nextBatch, completed,
                   stopReturns, joinFault>>
    /\ UNCHANGED <<pvars, svars>>

S_Lock ==
    /\ pcS = "lock" /\ m_mutex = "free"
    /\ m_mutex' = "stopper" /\ pcS' = "locked"
    /\ UNCHANGED <<m_running, m_queue, m_joinable, pcW, local_queue,
                   idx, inHandler, handled, pcP, pushArg, nextBatch, completed,
                   stopCalls, stopReturns, preStop, joinFault>>
    /\ UNCHANGED <<pvars, svars>>

S_Check_NoGuard ==
    /\ pcS = "locked"
    /\ m_running' = FALSE /\ pcS' = "notify" /\ UNCHANGED stopReturns
    /\ m_mutex' = "free"
    /\ UNCHANGED <<m_queue, m_joinable, pcW, local_queue,
                   idx, inHandler, handled, pcP, pushArg, nextBatch, completed,
                   stopCalls, preStop, joinFault>>
    /\ UNCHANGED <<pvars, svars>>

S_Check ==
    /\ pcS = "locked"
    /\ IF m_running = FALSE
         THEN /\ pcS' = "idle" /\ stopReturns' = stopReturns + 1
              /\ UNCHANGED m_running
         ELSE /\ m_running' = FALSE /\ pcS' = "notify"
              /\ UNCHANGED stopReturns
    /\ m_mutex' = "free"
    /\ UNCHANGED <<m_queue, m_joinable, pcW, local_queue,
                   idx, inHandler, handled, pcP, pushArg, nextBatch, completed,
                   stopCalls, preStop, joinFault>>
    /\ UNCHANGED <<pvars, svars>>

S_Notify ==
    /\ pcS = "notify"
    /\ pcW' = NotifyAll
    /\ pcS' = "join"
    /\ UNCHANGED <<m_running, m_queue, m_mutex, m_joinable, local_queue,
                   idx, inHandler, handled, pcP, pushArg, nextBatch, completed,
                   stopCalls, stopReturns, preStop, joinFault>>
    /\ UNCHANGED <<pvars, svars>>

\* m_thread.join(): blocks until the thread has exited; on a thread that is
\* not joinable it throws std::system_error
S_Join_NoWait ==
    /\ pcS = "join"
    /\ m_joinable' = FALSE /\ pcS' = "idle"
    /\ stopReturns' = stopReturns + 1
    /\ UNCHANGED joinFault
    /\ UNCHANGED <<m_running, m_queue, m_mutex, pcW, local_queue,
                   idx, inHandler, handled, pcP, pushArg, nextBatch, completed,
                   stopCalls, preStop>>
    /\ UNCHANGED <<pvars, svars>>

S_Join ==
    /\ pcS = "join"
    /\ IF m_joinable
         THEN /\ pcW = "exited"
              /\ m_joinable' = FALSE /\ pcS' = "idle"
              /\ stopReturns' = stopReturns + 1
              /\ UNCHANGED joinFault
         ELSE /\ joinFault' = TRUE /\ pcS' = "fault"
              /\ UNCHANGED <<m_joinable, stopReturns>>
    /\ UNCHANGED <<m_running, m_queue, m_mutex, pcW, local_queue,
                   idx, inHandler, handled, pcP, pushArg, nextBatch, completed,
                   stopCalls, preStop>>
    /\ UNCHANGED <<pvars, svars>>

\* ---------------------------------------------------------------- Parser
\* Parser::Parser and the state main() is in before exec(); the locals of
\* exec hold their initial values.
ParserInit ==
    /\ pcExec = "ready"
    /\ pstate = "TopLevel"
    /\ commands = <<>>
    /\ depthCounter = 0
    /\ m_bulkSize \in 0..MaxBulk
    /\ m_lineCount = 0 /\ m_commandCount = 0 /\ m_blockCount = 0
    /\ m_subscribers = 0
    /\ received = [i \in 1..MaxSubs |-> <<>>]
    /\ published = <<>>
    /\ calls = <<>>
    /\ regAt = [i \in 1..MaxSubs |-> 0]
    /\ input = <<>>

\* the lines std::getline can return: the two delimiters, an empty line and
\* an ordinary command
Lines == {"{", "}", "", "a"}

\* Parser::subscribe, called by the thread that drives the Parser: before
\* exec() as main() does, or after exec() has returned
Subscribe ==
    /\ pcExec \in {"ready", "done"} /\ m_subscribers < MaxSubs
    /\ m_subscribers' = m_subscribers + 1
    /\ regAt' = [regAt EXCEPT ![m_subscribers + 1] = Len(published)]
    /\ UNCHANGED <<pcExec, pstate, commands, depthCounter, m_bulkSize,
                   m_lineCount, m_commandCount, m_blockCount, received,
                   published, calls, input>>
    /\ UNCHANGED <<wvars, svars>>

\* Parser::publish(commands), without the commands.clear() the caller sees
\* through the reference
NoPublish ==
    UNCHANGED <<m_commandCount, m_blockCount, received, published, calls>>

Deliver_FirstOnly(cmds) ==
    /\ received' = [i \in 1..MaxSubs |->
                      IF i <= m_subscribers /\ i = 1
                        THEN Append(received[i], cmds)
                        ELSE received[i]]
    /\ calls' = calls \o [i \in 1..(IF m_subscribers >= 1 THEN 1 ELSE 0)
                           |-> <<i, cmds>>]
    /\ published' = Append(published, cmds)

\* the range-for over m_subscribers
Deliver(cmds) ==
    /\ received' = [i \in 1..MaxSubs |->
                      IF i <= m_subscribers THEN Append(received[i], cmds)
                                            ELSE received[i]]
    /\ calls' = calls \o [i \in 1..m_subscribers |-> <<i, cmds>>]
    /\ published' = Append(published, cmds)

Publish_CountOne(cmds) ==
    IF Len(cmds) = 0
      THEN NoPublish
      ELSE /\ m_commandCount' = m_commandCount + 1
           /\ m_blockCount' = m_blockCount + 1
           /\ Deliver(cmds)

Publish_NoEmptyCheck(cmds) ==
    /\ m_commandCount' = m_commandCount + Len(cmds)
    /\ m_blockCount' = m_blockCount + 1
    /\ Deliver(cmds)

Publish(cmds) ==
    IF Len(cmds) = 0
      THEN NoPublish
      ELSE /\ m_commandCount' = m_commandCount + Len(cmds)
           /\ m_blockCount' = m_blockCount + 1
           /\ Deliver(cmds)

\* case ParsingState::TopLevel
TopLevelStep_NoFlush(line) ==
    IF line # "{"
      THEN /\ IF Len(Append(commands, line)) = m_bulkSize
                THEN Publish(Append(commands, line)) /\ commands' = <<>>
                ELSE NoPublish /\ commands' = Append(commands, line)
           /\ UNCHANGED <<pstate, depthCounter>>
      ELSE /\ depthCounter' = depthCounter + 1
           /\ NoPublish /\ UNCHANGED commands
           /\ pstate' = "InBlock"

TopLevelStep_SkipEmpty(line) ==
    IF line # "{"
      THEN /\ IF line = ""
                THEN NoPublish /\ UNCHANGED commands
                ELSE IF Len(Append(commands, line)) = m_bulkSize
                  THEN Publish(Append(commands, line)) /\ commands' = <<>>
                  ELSE NoPublish /\ commands' = Append(commands, line)
           /\ UNCHANGED <<pstate, depthCounter>>
      ELSE /\ depthCounter' = depthCounter + 1
           /\ Publish(commands) /\ commands' = <<>>
           /\ pstate' = "InBlock"

TopLevelStep(line) ==
    IF line # "{"
      THEN /\ IF Len(Append(commands, line)) = m_bulkSize
                THEN Publish(Append(commands, line)) /\ commands' = <<>>
                ELSE NoPublish /\ commands' = Append(commands, line)
           /\ UNCHANGED <<pstate, depthCounter>>
      ELSE /\ depthCounter' = depthCounter + 1
           /\ Publish(commands) /\ commands' = <<>>
           /\ pstate' = "InBlock"

\* case ParsingState::InBlock
InBlockStep_NoDepthCheck(line) ==
    IF line # "}"
      THEN /\ IF line = "{"
                THEN depthCounter' = depthCounter + 1 /\ UNCHANGED commands
                ELSE commands' = Append(commands, line)
                     /\ UNCHANGED depthCounter
           /\ NoPublish /\ UNCHANGED pstate
      ELSE /\ depthCounter' = depthCounter - 1
           /\ Publish(commands) /\ commands' = <<>>
           /\ pstate' = "TopLevel"

InBlockStep_AppendOpen(line) ==
    IF line # "}"
      THEN /\ IF line = "{"
                THEN depthCounter' = depthCounter + 1
                     /\ commands' = Append(commands, line)
                ELSE commands' = Append(commands, line)
                     /\ UNCHANGED depthCounter
           /\ NoPublish /\ UNCHANGED pstate
      ELSE /\ depthCounter' = depthCounter - 1
           /\ IF depthCounter - 1 = 0
                THEN /\ Publish(commands) /\ commands' = <<>>
                     /\ pstate' = "TopLevel"
                ELSE NoPublish /\ UNCHANGED <<commands, pstate>>

InBlockStep(line) ==
    IF line # "}"
      THEN /\ IF line = "{"
                THEN depthCounter' = depthCounter + 1 /\ UNCHANGED commands
                ELSE commands' = Append(commands, line)
                     /\ UNCHANGED depthCounter
           /\ NoPublish /\ UNCHANGED pstate
      ELSE /\ depthCounter' = depthCounter - 1
           /\ IF depthCounter - 1 = 0
                THEN /\ Publish(commands) /\ commands' = <<>>
                     /\ pstate' = "TopLevel"
                ELSE NoPublish /\ UNCHANGED <<commands, pstate>>

\* Parser::exec is entered: its locals are initialised
ExecBegin ==
    /\ pcExec = "ready"
    /\ pcExec' = "reading"
    /\ pstate' = "TopLevel" /\ commands' = <<>> /\ depthCounter' = 0
    /\ UNCHANGED <<m_bulkSize, m_lineCount, m_commandCount, m_blockCount,
                   m_subscribers, received, published, calls, regAt,
                   input>>
    /\ UNCHANGED <<wvars, svars>>

\* one turn of the getline loop
ReadLine ==
    /\ pcExec = "reading" /\ Len(input) < MaxLines
    /\ \E line \in Lines :
         /\ input' = Append(input, line)
         /\ m_lineCount' = m_lineCount + 1
         /\ IF pstate = "TopLevel" THEN TopLevelStep(line)
                                   ELSE InBlockStep(line)
    /\ UNCHANGED <<pcExec, m_bulkSize, m_subscribers, regAt>>
    /\ UNCHANGED <<wvars, svars>>

\* getline fails: the loop ends and exec returns
Eof_NoFlush ==
    /\ pcExec = "reading"
    /\ pcExec' = "done"
    /\ NoPublish /\ UNCHANGED commands
    /\ UNCHANGED <<pstate, depthCounter, m_bulkSize, m_lineCount,
                   m_subscribers, regAt, input>>
    /\ UNCHANGED <<wvars, svars>>

Eof_AlwaysFlush ==
    /\ pcExec = "reading"
    /\ pcExec' = "done"
    /\ Publish(commands) /\ commands' = <<>>
    /\ UNCHANGED <<pstate, depthCounter, m_bulkSize, m_lineCount,
                   m_subscribers, regAt, input>>
    /\ UNCHANGED <<wvars, svars>>

Eof ==
    /\ pcExec = "reading"
    /\ pcExec' = "done"
    /\ IF pstate = "TopLevel"
         THEN Publish(commands) /\ commands' = <<>>
         ELSE NoPublish /\ UNCHANGED commands
    /\ UNCHANGED <<pstate, depthCounter, m_bulkSize, m_lineCount,
                   m_subscribers, regAt, input>>
    /\ UNCHANGED <<wvars, svars>>

\* ---------------------------------------------------------------- sinks
Pool == 0..(MaxWorkers - 1)        \* positions of m_workers
Owned == 0..(nWorkers - 1)         \* the workers the sink has
Sizes == {1, 2}                    \* commands.size() of a pushed batch
Stamps == {0, 1}                   \* values std::time(nullptr) returns

\* ScreenWritter() / FileWriter(wrkCount): every Worker is constructed
\* started, the statistics maps are empty, m_roundRobin(0).
SinkInit ==
    /\ sinkKind \in {"screen", "file"}
    /\ nWorkers \in (IF sinkKind = "screen" THEN {1} ELSE 1..MaxWorkers)
    /\ sizes \in {{1}, Sizes}
    /\ stamps \in {{0}, Stamps}
    /\ m_roundRobin = 0
    /\ b_blockCount = <<>> /\ b_commandCount = <<>>
    /\ pcM = "idle" /\ curBatch = <<0, 0>> /\ target = 0 /\ nPushed = 0
    /\ handed = [w \in Pool |-> <<>>]
    /\ k_running = [w \in Pool |-> w < nWorkers]
    /\ k_queue = [w \in Pool |-> <<>>]
    /\ k_mutex = [w \in Pool |-> "free"]
    /\ k_pc = [w \in Pool |-> IF w < nWorkers THEN "lock" ELSE "none"]
    /\ k_local = [w \in Pool |-> <<>>]
    /\ k_idx = [w \in Pool |-> 1]
    /\ k_cur = [w \in Pool |-> <<0, 0>>]
    /\ k_handled = [w \in Pool |-> <<>>]
    /\ k_hpc = [w \in Pool |-> "none"]
    /\ k_time = [w \in Pool |-> 0]
    /\ conflictResolverCounter = 0 /\ conflictMutex = "free"
    /\ files = <<>>

\* IBulker::initStats on one of the two maps
InitStats(map, w) == IF w \in DOMAIN map THEN map ELSE map @@ (w :> 0)

\* m_condition.notify_all() of worker w
K_NotifyAll(w) ==
    [k_pc EXCEPT ![w] = IF k_pc[w] = "waiting" THEN "relock" ELSE @]

\* --- the dispatching thread: push_back on the sink
M_Push ==
    /\ pcM = "idle" /\ nPushed < MaxBatches
    /\ \E n \in sizes : curBatch' = <<nPushed + 1, n>>
    /\ target' = IF sinkKind = "file" THEN m_roundRobin ELSE 0
    /\ pcM' = "push_enqueue"
    /\ UNCHANGED <<sinkKind, nWorkers, sizes, stamps,
                   m_roundRobin, b_blockCount,
                   b_commandCount, nPushed, handed,
                   k_running, k_queue, k_mutex, k_pc, k_local, k_idx, k_cur,
                   k_handled, k_hpc, k_time,
                   conflictResolverCounter, conflictMutex, files>>
    /\ UNCHANGED <<wvars, pvars>>

\* Worker::push_back: the lock_guard block
M_PushEnqueue ==
    /\ pcM = "push_enqueue" /\ k_mutex[target] = "free"
    /\ k_queue' = [k_queue EXCEPT ![target] = Append(@, curBatch)]
    /\ handed' = [handed EXCEPT ![target] = Append(@, curBatch)]
    /\ pcM' = "push_notify"
    /\ UNCHANGED <<sinkKind, nWorkers, sizes, stamps,
                   m_roundRobin, b_blockCount,
                   b_commandCount, curBatch, target, nPushed,
                   k_running, k_mutex, k_pc, k_local, k_idx, k_cur,
                   k_handled, k_hpc, k_time,
                   conflictResolverCounter, conflictMutex, files>>
    /\ UNCHANGED <<wvars, pvars>>

M_PushNotify ==
    /\ pcM = "push_notify"
    /\ k_pc' = K_NotifyAll(target)
    /\ pcM' = "push_stats"
    /\ UNCHANGED <<sinkKind, nWorkers, sizes, stamps,
                   m_roundRobin, b_blockCount,
                   b_commandCount, curBatch, target, nPushed, handed,
                   k_running, k_queue, k_mutex, k_local, k_idx, k_cur,
                   k_handled, k_hpc, k_time,
                   conflictResolverCounter, conflictMutex, files>>
    /\ UNCHANGED <<wvars, pvars>>

\* calcStats, then FileWriter's step of m_roundRobin; push_back returns
M_PushStats_NoAdvance ==
    /\ pcM = "push_stats"
    /\ b_blockCount' =
         [InitStats(b_blockCount, target) EXCEPT ![target] = @ + 1]
    /\ b_commandCount' =
         [InitStats(b_commandCount, target) EXCEPT ![target] = @ + curBatch[2]]
    /\ UNCHANGED m_roundRobin
    /\ nPushed' = nPushed + 1
    /\ pcM' = "idle"
    /\ UNCHANGED <<sinkKind, nWorkers, sizes, stamps,
                   curBatch, target, handed,
                   k_running, k_queue, k_mutex, k_pc, k_local, k_idx, k_cur,
                   k_handled, k_hpc, k_time,
                   conflictResolverCounter, conflictMutex, files>>
    /\ UNCHANGED <<wvars, pvars>>

M_PushStats_CountOne ==
    /\ pcM = "push_stats"
    /\ b_blockCount' =
         [InitStats(b_blockCount, target) EXCEPT ![target] = @ + 1]
    /\ b_commandCount' =
         [InitStats(b_commandCount, target) EXCEPT ![target] = @ + 1]
    /\ m_roundRobin' =
         IF sinkKind = "file"
           THEN IF m_roundRobin + 1 = nWorkers THEN 0 ELSE m_roundRobin + 1
           ELSE m_roundRobin
    /\ nPushed' = nPushed + 1
    /\ pcM' = "idle"
    /\ UNCHANGED <<sinkKind, nWorkers, sizes, stamps,
                   curBatch, target, handed,
                   k_running, k_queue, k_mutex, k_pc, k_local, k_idx, k_cur,
                   k_handled, k_hpc, k_time,
                   conflictResolverCounter, conflictMutex, files>>
    /\ UNCHANGED <<wvars, pvars>>

M_PushStats ==
    /\ pcM = "push_stats"
    /\ b_blockCount' =
         [InitStats(b_blockCount, target) EXCEPT ![target] = @ + 1]
    /\ b_commandCount' =
         [InitStats(b_commandCount, target) EXCEPT ![target] = @ + curBatch[2]]
    /\ m_roundRobin' =
         IF sinkKind = "file"
           THEN IF m_roundRobin + 1 = nWorkers THEN 0 ELSE m_roundRobin + 1
           ELSE m_roundRobin
    /\ nPushed' = nPushed + 1
    /\ pcM' = "idle"
    /\ UNCHANGED <<sinkKind, nWorkers, sizes, stamps,
                   curBatch, target, handed,
                   k_running, k_queue, k_mutex, k_pc, k_local, k_idx, k_cur,
                   k_handled, k_hpc, k_time,
                   conflictResolverCounter, conflictMutex, files>>
    /\ UNCHANGED <<wvars, pvars>>

\* --- the dispatching thread: stop on the sink
M_Stop ==
    /\ pcM = "idle"
    /\ target' = 0
    /\ pcM' = "stop_init"
    /\ UNCHANGED <<sinkKind, nWorkers, sizes, stamps,
                   m_roundRobin, b_blockCount,
                   b_commandCount, curBatch, nPushed, handed,
                   k_running, k_queue, k_mutex, k_pc, k_local, k_idx, k_cur,
                   k_handled, k_hpc, k_time,
                   conflictResolverCounter, conflictMutex, files>>
    /\ UNCHANGED <<wvars, pvars>>

\* FileWriter::stop calls initStats before stopping a worker;
\* ScreenWritter::stop goes straight to m_worker.stop()
M_StopInit ==
    /\ pcM = "stop_init"
    /\ IF sinkKind = "file"
         THEN /\ b_blockCount' = InitStats(b_blockCount, target)
              /\ b_commandCount' = InitStats(b_commandCount, target)
         ELSE UNCHANGED <<b_blockCount, b_commandCount>>
    /\ pcM' = "stop_flag"
    /\ UNCHANGED <<sinkKind, nWorkers, sizes, stamps,
                   m_roundRobin, curBatch, target,
                   nPushed, handed,
                   k_running, k_queue, k_mutex, k_pc, k_local, k_idx, k_cur,
                   k_handled, k_hpc, k_time,
                   conflictResolverCounter, conflictMutex, files>>
    /\ UNCHANGED <<wvars, pvars>>

\* the worker after `target` in the loop of FileWriter::stop, if any
NextToStop ==
    IF target + 1 < nWorkers THEN "stop_init" ELSE "stopped"

\* Worker::stop: the lock_guard block
M_StopFlag ==
    /\ pcM = "stop_flag" /\ k_mutex[target] = "free"
    /\ IF k_running[target] = FALSE
         THEN /\ pcM' = NextToStop
              /\ target' = IF target + 1 < nWorkers THEN target + 1
                                                    ELSE target
              /\ UNCHANGED k_running
         ELSE /\ k_running' = [k_running EXCEPT ![target] = FALSE]
              /\ pcM' = "stop_notify"
              /\ UNCHANGED target
    /\ UNCHANGED <<sinkKind, nWorkers, sizes, stamps,
                   m_roundRobin, b_blockCount,
                   b_commandCount, curBatch, nPushed, handed,
                   k_queue, k_mutex, k_pc, k_local, k_idx, k_cur,
                   k_handled, k_hpc, k_time,
                   conflictResolverCounter, conflictMutex, files>>
    /\ UNCHANGED <<wvars, pvars>>

M_StopNotify ==
    /\ pcM = "stop_notify"
    /\ k_pc' = K_NotifyAll(target)
    /\ pcM' = "stop_join"
    /\ UNCHANGED <<sinkKind, nWorkers, sizes, stamps,
                   m_roundRobin, b_blockCount,
                   b_commandCount, curBatch, target, nPushed, handed,
                   k_running, k_queue, k_mutex, k_local, k_idx, k_cur,
                   k_handled, k_hpc, k_time,
                   conflictResolverCounter, conflictMutex, files>>
    /\ UNCHANGED <<wvars, pvars>>

M_StopJoin ==
    /\ pcM = "stop_join" /\ k_pc[target] = "exited"
    /\ pcM' = NextToStop
    /\ target' = IF target + 1 < nWorkers THEN target + 1 ELSE target
    /\ UNCHANGED <<sinkKind, nWorkers, sizes, stamps,
                   m_roundRobin, b_blockCount,
                   b_commandCount, curBatch, nPushed, handed,
                   k_running, k_queue, k_mutex, k_pc, k_local, k_idx, k_cur,
                   k_handled, k_hpc, k_time,
                   conflictResolverCounter, conflictMutex, files>>
    /\ UNCHANGED <<wvars, pvars>>

\* --- the background thread of worker w (the lambda of Worker::start)
K_WaitPred(w) == (k_queue[w] # <<>>) \/ ~k_running[w]

\* unique_lock, wait(lk, pred) and what follows its return, up to the point
\* where the mutex is released or the final drain begins
K_Check(w) ==
    /\ k_pc[w] \in {"lock", "relock"} /\ k_mutex[w] = "free"
    /\ IF ~K_WaitPred(w)
         THEN /\ k_pc' = [k_pc EXCEPT ![w] = "waiting"]
              /\ UNCHANGED <<k_queue, k_local, k_idx, k_mutex>>
         ELSE IF ~k_running[w]
           THEN /\ k_pc' = [k_pc EXCEPT ![w] = "drain"]
                /\ k_mutex' = [k_mutex EXCEPT ![w] = "worker"]
                /\ k_idx' = [k_idx EXCEPT ![w] = 1]
                /\ UNCHANGED <<k_queue, k_local>>
           ELSE /\ k_local' = [k_local EXCEPT ![w] = k_queue[w]]
                /\ k_queue' = [k_queue EXCEPT ![w] = <<>>]
                /\ k_pc' = [k_pc EXCEPT ![w] = "work"]
                /\ k_idx' = [k_idx EXCEPT ![w] = 1]
                /\ UNCHANGED k_mutex
    /\ UNCHANGED <<sinkKind, nWorkers, sizes, stamps,
                   m_roundRobin, b_blockCount,
                   b_commandCount, pcM, curBatch, target, nPushed, handed,
                   k_running, k_cur, k_handled, k_hpc, k_time,
                   conflictResolverCounter, conflictMutex, files>>
    /\ UNCHANGED <<wvars, pvars>>

K_Spurious(w) ==
    /\ k_pc[w] = "waiting"
    /\ k_pc' = [k_pc EXCEPT ![w] = "relock"]
    /\ UNCHANGED <<sinkKind, nWorkers, sizes, stamps,
                   m_roundRobin, b_blockCount,
                   b_commandCount, pcM, curBatch, target, nPushed, handed,
                   k_running, k_queue, k_mutex, k_local, k_idx, k_cur,
                   k_handled, k_hpc, k_time,
                   conflictResolverCounter, conflictMutex, files>>
    /\ UNCHANGED <<wvars, pvars>>

K_Iterated(w) == IF k_pc[w] = "drain" THEN k_queue[w] ELSE k_local[w]

\* m_workFunction(data) is entered: ScreenWritter::write, or FileWriter::write
\* up to the lock on conflictMutex (std::time and getcwd come before it)
K_HandlerCall(w) ==
    /\ k_pc[w] \in {"drain", "work"} /\ k_idx[w] <= Len(K_Iterated(w))
    /\ k_cur' = [k_cur EXCEPT ![w] = K_Iterated(w)[k_idx[w]]]
    /\ k_pc' = [k_pc EXCEPT ![w] = IF @ = "drain" THEN "drain_h" ELSE "work_h"]
    /\ IF sinkKind = "file"
         THEN /\ k_hpc' = [k_hpc EXCEPT ![w] = "lock"]
              /\ \E t \in stamps : k_time' = [k_time EXCEPT ![w] = t]
         ELSE /\ k_hpc' = [k_hpc EXCEPT ![w] = "write"]
              /\ UNCHANGED k_time
    /\ UNCHANGED <<sinkKind, nWorkers, sizes, stamps,
                   m_roundRobin, b_blockCount,
                   b_commandCount, pcM, curBatch, target, nPushed, handed,
                   k_running, k_queue, k_mutex, k_local, k_idx,
                   k_handled,
                   conflictResolverCounter, conflictMutex, files>>
    /\ UNCHANGED <<wvars, pvars>>

\* FileWriter::write: lock_guard on conflictMutex
F_ConflictLock_NoWait(w) ==
    /\ k_hpc[w] = "lock"
    /\ conflictMutex' = "held"
    /\ k_hpc' = [k_hpc EXCEPT ![w] = "open"]
    /\ UNCHANGED <<sinkKind, nWorkers, sizes, stamps,
                   m_roundRobin, b_blockCount,
                   b_commandCount, pcM, curBatch, target, nPushed, handed,
                   k_running, k_queue, k_mutex, k_pc, k_local, k_idx, k_cur,
                   k_handled, k_time,
                   conflictResolverCounter, files>>
    /\ UNCHANGED <<wvars, pvars>>

F_ConflictLock(w) ==
    /\ k_hpc[w] = "lock" /\ conflictMutex = "free"
    /\ conflictMutex' = "held"
    /\ k_hpc' = [k_hpc EXCEPT ![w] = "open"]
    /\ UNCHANGED <<sinkKind, nWorkers, sizes, stamps,
                   m_roundRobin, b_blockCount,
                   b_commandCount, pcM, curBatch, target, nPushed, handed,
                   k_running, k_queue, k_mutex, k_pc, k_local, k_idx, k_cur,
                   k_handled, k_time,
                   conflictResolverCounter, files>>
    /\ UNCHANGED <<wvars, pvars>>

\* logFile.open(".../bulk<time>_<counter>.log")
F_Open(w) ==
    /\ k_hpc[w] = "open"
    /\ files' = Append(files, <<k_time[w], conflictResolverCounter>>)
    /\ k_hpc' = [k_hpc EXCEPT ![w] = "incr"]
    /\ UNCHANGED <<sinkKind, nWorkers, sizes, stamps,
                   m_roundRobin, b_blockCount,
                   b_commandCount, pcM, curBatch, target, nPushed, handed,
                   k_running, k_queue, k_mutex, k_pc, k_local, k_idx, k_cur,
                   k_handled, k_time,
                   conflictResolverCounter, conflictMutex>>
    /\ UNCHANGED <<wvars, pvars>>

\* conflictResolverCounter++ and the end of the lock_guard block
F_Incr(w) ==
    /\ k_hpc[w] = "incr"
    /\ conflictResolverCounter' = conflictResolverCounter + 1
    /\ conflictMutex' = "free"
    /\ k_hpc' = [k_hpc EXCEPT ![w] = "write"]
    /\ UNCHANGED <<sinkKind, nWorkers, sizes, stamps,
                   m_roundRobin, b_blockCount,
                   b_commandCount, pcM, curBatch, target, nPushed, handed,
                   k_running, k_queue, k_mutex, k_pc, k_local, k_idx, k_cur,
                   k_handled, k_time, files>>
    /\ UNCHANGED <<wvars, pvars>>

\* the batch is written out and the handler returns
K_HandlerReturn(w) ==
    /\ k_pc[w] \in {"drain_h", "work_h"} /\ k_hpc[w] = "write"
    /\ k_handled' = [k_handled EXCEPT ![w] = Append(@, k_cur[w])]
    /\ k_cur' = [k_cur EXCEPT ![w] = <<0, 0>>]
    /\ k_hpc' = [k_hpc EXCEPT ![w] = "none"]
    /\ k_idx' = [k_idx EXCEPT ![w] = @ + 1]
    /\ k_pc' = [k_pc EXCEPT ![w] = IF @ = "drain_h" THEN "drain" ELSE "work"]
    /\ UNCHANGED <<sinkKind, nWorkers, sizes, stamps,
                   m_roundRobin, b_blockCount,
                   b_commandCount, pcM, curBatch, target, nPushed, handed,
                   k_running, k_queue, k_mutex, k_local, k_time,
                   conflictResolverCounter, conflictMutex, files>>
    /\ UNCHANGED <<wvars, pvars>>

K_WorkDone(w) ==
    /\ k_pc[w] = "work" /\ k_idx[w] > Len(k_local[w])
    /\ k_local' = [k_local EXCEPT ![w] = <<>>]
    /\ k_idx' = [k_idx EXCEPT ![w] = 1]
    /\ k_pc' = [k_pc EXCEPT ![w] = "lock"]
    /\ UNCHANGED <<sinkKind, nWorkers, sizes, stamps,
                   m_roundRobin, b_blockCount,
                   b_commandCount, pcM, curBatch, target, nPushed, handed,
                   k_running, k_queue, k_mutex, k_cur, k_handled, k_hpc,
                   k_time, conflictResolverCounter, conflictMutex, files>>
    /\ UNCHANGED <<wvars, pvars>>

K_DrainDone(w) ==
    /\ k_pc[w] = "drain" /\ k_idx[w] > Len(k_queue[w])
    /\ k_queue' = [k_queue EXCEPT ![w] = <<>>]
    /\ k_idx' = [k_idx EXCEPT ![w] = 1]
    /\ k_mutex' = [k_mutex EXCEPT ![w] = "free"]
    /\ k_pc' = [k_pc EXCEPT ![w] = "exited"]
    /\ UNCHANGED <<sinkKind, nWorkers, sizes, stamps,
                   m_roundRobin, b_blockCount,
                   b_commandCount, pcM, curBatch, target, nPushed, handed,
                   k_running, k_local, k_cur, k_handled, k_hpc,
                   k_time, conflictResolverCounter, conflictMutex, files>>
    /\ UNCHANGED <<wvars, pvars>>

Init == WorkerInit /\ ParserInit /\ SinkInit

\* one Worker alone: the Parser and the sink stay as constructed
WInit ==
    Init /\ m_bulkSize = 1 /\ sinkKind = "screen"
         /\ sizes = {1} /\ stamps = {0}

\* the Parser alone
PInit == Init /\ sinkKind = "screen" /\ sizes = {1} /\ stamps = {0}

\* one sink alone, of either kind, fed batches of every size, the whole run
\* within one second
SInit == Init /\ m_bulkSize = 1 /\ sizes = Sizes /\ stamps = {0}

\* a File sink alone, its handlers reading the clock in either second
FInit ==
    Init /\ m_bulkSize = 1 /\ sinkKind = "file"
         /\ sizes = {1} /\ stamps = Stamps

WorkerNext ==
    \/ P_Call \/ P_Lock \/ P_Enqueue \/ P_Notify
    \/ W_Lock \/ W_Check \/ W_Spurious
    \/ W_HandlerCall \/ W_HandlerReturn \/ W_WorkDone \/ W_DrainDone
    \/ S_Call \/ S_Lock \/ S_Check \/ S_Notify \/ S_Join

ParserNext == Subscribe \/ ExecBegin \/ ReadLine \/ Eof

\* the Parser alone: no thread touches the Worker
ParserSpec == PInit /\ [][ParserNext]_vars

SinkNext ==
    \/ M_Push \/ M_PushEnqueue \/ M_PushNotify \/ M_PushStats
    \/ M_Stop \/ M_StopInit \/ M_StopFlag \/ M_StopNotify \/ M_StopJoin
    \/ \E w \in Owned : K_Check(w)
    \/ \E w \in Owned : K_Spurious(w)
    \/ \E w \in Owned : K_HandlerCall(w)
    \/ \E w \in Owned : F_ConflictLock(w)
    \/ \E w \in Owned : F_Open(w)
    \/ \E w \in Owned : F_Incr(w)
    \/ \E w \in Owned : K_HandlerReturn(w)
    \/ \E w \in Owned : K_WorkDone(w)
    \/ \E w \in Owned : K_DrainDone(w)

\* a sink, the thread that drives it and its workers; the Parser and the
\* single Worker stay as constructed
SinkSpec == SInit /\ [][SinkNext]_vars

FileNameSpec == FInit /\ [][SinkNext]_vars

WorkerSpec == WInit /\ [][WorkerNext]_vars

\* A fair scheduler: every thread that can run does, a thread that can take
\* the mutex again and again gets it, and the handler returns.  Calling
\* push_back or stop is the caller's choice.
WorkerFairness ==
    /\ SF_vars(W_Lock) /\ WF_vars(W_Check)
    /\ WF_vars(W_HandlerCall) /\ WF_vars(W_HandlerReturn)
    /\ WF_vars(W_WorkDone) /\ WF_vars(W_DrainDone)
    /\ SF_vars(P_Lock) /\ WF_vars(P_Enqueue) /\ WF_vars(P_Notify)
    /\ SF_vars(S_Lock) /\ WF_vars(S_Check) /\ WF_vars(S_Notify)
    /\ WF_vars(S_Join)

WorkerFairSpec == WInit /\ [][WorkerNext]_vars /\ WorkerFairness

\* a Worker nobody stops: push_back calls and the background thread only
WorkerNoStopNext ==
    \/ P_Call \/ P_Lock \/ P_Enqueue \/ P_Notify
    \/ W_Lock \/ W_Check \/ W_Spurious
    \/ W_HandlerCall \/ W_HandlerReturn \/ W_WorkDone

WorkerNoStopFairSpec ==
    WInit /\ [][WorkerNoStopNext]_vars /\ WorkerFairness

\* ---------------------------------------------------------------- claims
Count(s, b) == Cardinality({i \in 1..Len(s) : s[i] = b})
IsPrefix(s, t) == Len(s) <= Len(t) /\ \A i \in 1..Len(s) : s[i] = t[i]
FirstStopReturns == stopReturns = 0 /\ stopReturns' = 1

C2_HandlerOutsideLock == inHandler # 0 => m_mutex # "worker"

\* C3: with one submitting thread (batches numbered in push_back order) the
\* handler is invoked on batches in exactly the order they were pushed.
C3_HandledInPushOrder ==
    /\ \A i \in 1..Len(handled) : handled[i] = i
    /\ inHandler # 0 => inHandler = Len(handled) + 1

C3_Witness ==
    /\ pcW = "drain_h" /\ idx >= 2 /\ Len(handled) >= 2
    /\ Len(m_queue) >= 2

\* C4: under a fair scheduler every stop() call that has started returns.
C4_StopReturns == (pcS # "idle") ~> (pcS = "idle")

C4_Witness ==
    /\ pcS = "join" /\ pcW = "work_h" /\ m_queue # <<>> /\ pcP = "lock"

\* C5: a stop() call made after an earlier stop() has returned goes through
\* the early return only: it leaves the running flag, the queue and the
\* handler log alone, joins nothing and faults nothing.
C5_SecondStopNoEffect ==
    /\ []~joinFault
    /\ [][(stopReturns >= 1 /\ pcS' # pcS) =>
            /\ UNCHANGED <<m_running, m_queue, handled, inHandler,
                           m_joinable, pcW>>
            /\ pcS' \in {"lock", "locked", "idle"}]_vars

C5_Witness == stopReturns >= 2 /\ m_queue # <<>>

\* C6: once stop() has returned the handler is never invoked again; batches
\* pushed later are appended to the queue and stay there.
C6_NoHandlingAfterStop ==
    [][stopReturns >= 1 =>
         /\ handled' = handled
         /\ inHandler' = 0
         /\ IsPrefix(m_queue, m_queue')]_vars

C6_Witness ==
    /\ stopReturns >= 1 /\ pcP = "idle"
    /\ \E i \in 1..Len(m_queue) : m_queue[i] \in completed \ preStop

RECURSIVE SumLen(_)
SumLen(bs) == IF bs = <<>> THEN 0 ELSE Len(Head(bs)) + SumLen(Tail(bs))
Ceil(n, d) == (n + d - 1) \div d
LineRead == Len(input') = Len(input) + 1
LastLine == input[Len(input)]
NoDelims(ls) == \A i \in 1..Len(ls) : ls[i] \notin {"{", "}"}
NonEmptyCount(ls) == Cardinality({i \in 1..Len(ls) : ls[i] # ""})

\* C7: after any prefix of the input commandCount is the sum of the sizes of
\* the published batches, blockCount is their number, and neither is negative.
C7_CountersMatchPublished ==
    /\ m_commandCount = SumLen(published)
    /\ m_blockCount = Len(published)
    /\ m_commandCount >= 0 /\ m_blockCount >= 0

C7_Witness == Len(published) >= 2 /\ m_commandCount > m_blockCount

\* C8 as stated: without delimiters and with threshold >= 1, after exec()
\* blockCount = ceil(number of non-empty lines / threshold).
C8_Original ==
    (pcExec = "done" /\ NoDelims(input) /\ m_bulkSize >= 1) =>
        m_blockCount = Ceil(NonEmptyCount(input), m_bulkSize)

\* C8 amended: without delimiters and with threshold >= 1, after exec()
\* blockCount = ceil(number of input lines / threshold), empty lines counted
\* like any other line, and no published batch is empty.
C8_BlockCountIsCeil ==
    (pcExec = "done" /\ NoDelims(input) /\ m_bulkSize >= 1) =>
        /\ m_blockCount = Ceil(Len(input), m_bulkSize)
        /\ \A i \in 1..Len(published) : published[i] # <<>>

C8_Witness ==
    /\ pcExec = "done" /\ NoDelims(input) /\ m_bulkSize = 2
    /\ Len(input) = 3 /\ input[2] = ""

\* C9: no published batch is empty, and a publish call on an empty pending
\* batch (on "{" in TopLevel, on the closing "}" of a block, at end of input)
\* changes no counter and calls no subscriber.
C9_EmptyPublishCall ==
    /\ commands = <<>>
    /\ \/ pcExec = "reading" /\ pcExec' = "done" /\ pstate = "TopLevel"
       \/ LineRead /\ pstate = "TopLevel" /\ LastLine' = "{"
       \/ LineRead /\ pstate = "InBlock" /\ LastLine' = "}"
            /\ depthCounter = 1

C9_NoEmptyBatch ==
    /\ [](/\ \A i \in 1..Len(published) : published[i] # <<>>
          /\ \A k \in 1..MaxSubs :
               \A i \in 1..Len(received[k]) : received[k][i] # <<>>)
    /\ [][C9_EmptyPublishCall => NoPublish]_vars

C9_Witness ==
    /\ pcExec = "done" /\ input = <<"{", "}">> /\ m_subscribers >= 1

\* C10: between lines the depth counter is >= 0, it is 0 exactly in TopLevel
\* and >= 1 exactly in InBlock; a line read in InBlock publishes the batch
\* exactly when it is a "}" taking the depth from 1 to 0.
C10_DepthInv ==
    /\ depthCounter >= 0
    /\ pstate = "TopLevel" <=> depthCounter = 0
    /\ pstate = "InBlock" <=> depthCounter >= 1

C10_DepthAndClose ==
    /\ []C10_DepthInv
    /\ [][(LineRead /\ pstate = "InBlock") =>
            /\ published' # published =>
                 (LastLine' = "}" /\ depthCounter = 1 /\ depthCounter' = 0)
            /\ (LastLine' = "}" /\ depthCounter = 1 /\ commands # <<>>) =>
                 (published' = Append(published, commands)
                    /\ pstate' = "TopLevel")
            /\ (LastLine' = "}" /\ depthCounter > 1) =>
                 (published' = published /\ pstate' = "InBlock"
                    /\ commands' = commands)]_vars

C10_Witness ==
    /\ input = <<"{", "{", "a", "}", "}">> /\ published = <<(<<"a">>)>>

\* The bracket structure of the input, read off the input alone: the nesting
\* depth after n lines ("}" outside a block is an ordinary line), the line
\* that opened the block the input is in, and the non-delimiter lines read
\* since.
RECURSIVE DepthAfter(_, _)
DepthAfter(ls, n) ==
    IF n = 0 THEN 0
    ELSE LET d == DepthAfter(ls, n - 1)
         IN IF ls[n] = "{" THEN d + 1
            ELSE IF ls[n] = "}" /\ d > 0 THEN d - 1 ELSE d
DepthNow(ls) == DepthAfter(ls, Len(ls))
BlockStart(ls) ==
    CHOOSE i \in 1..Len(ls) :
        /\ DepthAfter(ls, i - 1) = 0
        /\ \A j \in i..Len(ls) : DepthAfter(ls, j) >= 1
NotDelim(l) == l \notin {"{", "}"}
BlockContent(ls) ==
    SelectSeq(SubSeq(ls, BlockStart(ls) + 1, Len(ls)), NotDelim)
BlockCloses == LineRead /\ DepthNow(input) >= 1 /\ DepthNow(input') = 0
BlockGoesOn == LineRead /\ DepthNow(input) >= 1 /\ DepthNow(input') >= 1

\* C11 as stated: the line closing a block opened at TopLevel publishes
\* exactly one batch, the non-delimiter lines of the block in input order.
C11_Original ==
    [][BlockCloses => published' = Append(published, BlockContent(input))]_vars

\* C11 amended: while a block is open the pending batch is exactly the
\* non-delimiter lines read since its outermost "{" and nothing is published;
\* the line closing it publishes that batch, once, whatever the threshold,
\* when the block has at least one non-delimiter line and publishes nothing
\* when it has none.
C11_BlockIsOneBatch ==
    /\ [](DepthNow(input) >= 1 => commands = BlockContent(input))
    /\ [][BlockGoesOn => published' = published]_vars
    /\ [][BlockCloses =>
            published' = IF BlockContent(input) # <<>>
                           THEN Append(published, BlockContent(input))
                           ELSE published]_vars

C11_Witness ==
    /\ m_bulkSize = 1 /\ pcExec = "reading"
    /\ input = <<"{", "a", "{", "}", "}">>
    /\ published = <<(<<"a">>)>>

\* C12: at end of input the pending batch is published exactly when the
\* Parser is in TopLevel (also when under the threshold); when input ends
\* InBlock nothing is published and no counter moves.
C12_ExecReturns == pcExec = "reading" /\ pcExec' = "done"

C12_EndOfInput ==
    [][C12_ExecReturns =>
         /\ (pstate = "TopLevel" /\ commands # <<>>) =>
              /\ published' = Append(published, commands)
              /\ m_blockCount' = m_blockCount + 1
              /\ m_commandCount' = m_commandCount + Len(commands)
         /\ pstate = "InBlock" => NoPublish]_vars

C12_Witness ==
    /\ pcExec = "done" /\ pstate = "InBlock" /\ Len(commands) = 2
    /\ m_subscribers >= 1 /\ m_commandCount = 0

\* C13: a "{" read in TopLevel with a non-empty pending batch publishes that
\* batch on its own, and the batch pending inside a block never holds a line
\* read before the block's "{".
C13_FlushBeforeBlock ==
    /\ [][(LineRead /\ pstate = "TopLevel" /\ LastLine' = "{"
             /\ commands # <<>>) =>
            /\ published' = Append(published, commands)
            /\ commands' = <<>> /\ pstate' = "InBlock"]_vars
    /\ [](pstate = "InBlock" =>
            Len(commands) <= Len(input) - BlockStart(input))

C13_Witness ==
    /\ m_bulkSize = 2 /\ pstate = "InBlock"
    /\ input = <<"a", "{", "a">>
    /\ published = <<(<<"a">>)>> /\ commands = <<"a">>

\* C20: in TopLevel every line but "{" is appended ("}" and the empty line
\* too); with threshold >= 1 the pending batch holds at most threshold-1
\* lines between lines, a batch published from TopLevel has at most threshold
\* lines, and exactly threshold unless "{" or end of input flushed it.
C20_TopLevelLine == LineRead /\ pstate = "TopLevel" /\ LastLine' # "{"
C20_FromTopLevel ==
    pstate = "TopLevel" /\ Len(published') = Len(published) + 1

C20_TopLevelAppends ==
    /\ []((m_bulkSize >= 1 /\ pstate = "TopLevel") =>
            Len(commands) <= m_bulkSize - 1)
    /\ [][C20_TopLevelLine =>
            \/ /\ commands' = Append(commands, LastLine')
               /\ published' = published
            \/ /\ published' = Append(published, Append(commands, LastLine'))
               /\ commands' = <<>>]_vars
    /\ [][(C20_FromTopLevel /\ m_bulkSize >= 1) =>
            /\ Len(published'[Len(published')]) <= m_bulkSize
            /\ C20_TopLevelLine =>
                 Len(published'[Len(published')]) = m_bulkSize]_vars

C20_Witness ==
    /\ m_bulkSize = 2 /\ pcExec = "done"
    /\ input = <<"}", "", "a">>
    /\ published = <<(<<"}", "">>), (<<"a">>)>>

\* C14: every published batch is delivered, within the step that publishes
\* it, once to each subscriber registered at that moment, in registration
\* order and with the published content; a subscriber is never called with a
\* batch published before it registered.
CallsTo(k) == SelectSeq(calls, LAMBDA c : c[1] = k)

C14_DeliveredOncePerSubscriber ==
    /\ [](\A k \in 1..MaxSubs :
            /\ received[k] =
                 IF k <= m_subscribers
                   THEN SubSeq(published, regAt[k] + 1, Len(published))
                   ELSE <<>>
            /\ received[k] = [j \in 1..Len(CallsTo(k)) |-> CallsTo(k)[j][2]])
    /\ [][published' # published =>
            /\ Len(published') = Len(published) + 1
            /\ calls' = calls \o [i \in 1..m_subscribers |->
                                    <<i, published'[Len(published')]>>]]_vars

C14_Witness ==
    /\ pcExec = "done" /\ m_subscribers = 2
    /\ regAt[1] = 0 /\ regAt[2] = 2
    /\ Len(received[1]) = 2 /\ received[2] = <<>>

\* C19: with no stop(), a fair scheduler and a returning handler, every batch
\* push_back was called with is eventually handled (exactly once): no
\* notification is lost between the predicate check and the wait.
C19_PushedIsHandled ==
    \A b \in 1..MaxPush : (nextBatch > b) ~> (Count(handled, b) = 1)

C19_Witness ==
    /\ stopCalls = 0 /\ pcW = "waiting" /\ pcP = "notify"
    /\ m_queue # <<>> /\ Len(handled) >= 1

RECURSIVE SumSize(_)
SumSize(bs) == IF bs = <<>> THEN 0 ELSE Head(bs)[2] + SumSize(Tail(bs))
PushInProgress == pcM \in {"push_enqueue", "push_notify", "push_stats"}

\* C15: a File sink with N workers hands the k-th batch (k from 0) to worker
\* k mod N, m_roundRobin stays in 0..N-1, and every worker handles its
\* batches in the order they reached the sink.
C15_RoundRobin ==
    sinkKind = "file" =>
      /\ m_roundRobin \in 0..(nWorkers - 1)
      /\ m_roundRobin = nPushed % nWorkers
      /\ \A w \in Owned :
           /\ \A i \in 1..Len(handed[w]) :
                (handed[w][i][1] - 1) = (i - 1) * nWorkers + w
           /\ IsPrefix(k_handled[w], handed[w])
           /\ k_hpc[w] # "none" =>
                k_cur[w] = handed[w][Len(k_handled[w]) + 1]

C15_Witness ==
    /\ sinkKind = "file" /\ nWorkers = 2 /\ nPushed = 3 /\ pcM = "idle"
    /\ m_roundRobin = 1
    /\ Len(k_handled[0]) = 2 /\ Len(k_handled[1]) = 1

\* C16: once stop() on a sink has returned, both statistics maps have an
\* entry for every worker the sink owns, 0 for a worker that got no batch.
C16_StatsForEveryWorker ==
    pcM = "stopped" =>
      \A w \in Owned :
        /\ w \in DOMAIN b_blockCount /\ w \in DOMAIN b_commandCount
        /\ handed[w] = <<>> => (b_blockCount[w] = 0 /\ b_commandCount[w] = 0)

\* C17: whenever no push_back on the sink is in progress, a worker's blocks
\* counter is the number of batches handed to it and its commands counter the
\* sum of their sizes, however many of them its handler has run on; a worker
\* without an entry has been handed nothing.
C17_StatsCountSubmissions ==
    ~PushInProgress =>
      \A w \in Owned :
        IF w \in DOMAIN b_blockCount
          THEN /\ w \in DOMAIN b_commandCount
               /\ b_blockCount[w] = Len(handed[w])
               /\ b_commandCount[w] = SumSize(handed[w])
          ELSE /\ w \notin DOMAIN b_commandCount
               /\ handed[w] = <<>>

C17_Witness ==
    /\ pcM = "idle" /\ 0 \in DOMAIN b_blockCount
    /\ b_blockCount[0] = 2 /\ b_commandCount[0] = 3
    /\ k_handled[0] = <<>> /\ k_hpc[0] = "none"

\* C18: the handlers of a File sink use the counter values 0, 1, 2, ... each
\* once, at most one handler is between reading and incrementing the counter,
\* and the files opened have pairwise distinct names, also within one second.
C18_UniqueFileNames ==
    /\ \A i \in 1..Len(files) : files[i][2] = i - 1
    /\ \A i, j \in 1..Len(files) : i # j => files[i] # files[j]
    /\ Cardinality({w \in Owned : k_hpc[w] \in {"open", "incr"}}) <= 1
    /\ conflictResolverCounter \in {Len(files), Len(files) - 1}

C18_Witness ==
    /\ nWorkers >= 2 /\ k_hpc[0] = "write" /\ k_hpc[1] = "write"
    /\ Len(files) >= 2
    /\ files[Len(files)][1] = files[Len(files) - 1][1]

====
